---- MODULE Spec2Model ----
(***************************************************************************)
(* Probability engine of DuelMath (src/services/mathUtils.ts): exact       *)
(* combination counting over a shared memo, the multivariate constrained   *)
(* hypergeometric solver, the draw-probability table, the Swiss standings  *)
(* distribution and the top-rank estimator.                                *)
(*                                                                         *)
(* BigInt values are TLA+ integers.  A JavaScript number that holds a      *)
(* ratio is the reduced fraction [num, den] of its exact value; toFixed(2) *)
(* is rounding of that exact value to hundredths, ties upward.             *)
(***************************************************************************)
EXTENDS Integers, Sequences, FiniteSets, TLC

VARIABLES comboMemo, op, args, ret

vars == <<comboMemo, op, args, ret>>

(***************************************************************************)
(* Bounds of the model.                                                    *)
(***************************************************************************)
\* largest n, pool size and round count of the calls of the engine (Spec)
MaxN == 4
\* largest pool of the solver's inputs drawn by SpecHyper
MaxDeck == 5
\* largest countInDeck, minDesired and maxDesired of a group (SpecHyper)
MaxCount == 2
\* largest n of the loop run pass by pass on the model's integers (SpecLoop)
MaxRow == 28
\* largest row of Pascal's triangle summed by SpecPascal
MaxSumRow == 40
\* players of a field, in the calls of calculateSwissStandings alone
MaxPlayers == 12

(***************************************************************************)
(* Numbers.                                                                *)
(***************************************************************************)
Max(a, b) == IF a >= b THEN a ELSE b

Min(a, b) == IF a <= b THEN a ELSE b

Abs(a) == IF a < 0 THEN -a ELSE a

RECURSIVE GCD(_, _)
GCD(a, b) == IF b = 0 THEN a ELSE GCD(b, a % b)

\* a bug: 2 * e for 2 ** e
twice(e) == IF e <= 0 THEN 1 ELSE 2 * e

\* 2 ** e for e >= 0
RECURSIVE Pow2(_)
Pow2(e) == IF e <= 0 THEN 1 ELSE 2 * Pow2(e - 1)

\* the number a / b (b > 0) in lowest terms
Frac(a, b) ==
  LET g == GCD(Abs(a), b)
  IN [num |-> a \div g, den |-> b \div g]

\* the integer i as a number
FromInt(i) == Frac(i, 1)

FracAdd(x, y) == Frac(x.num * y.den + y.num * x.den, x.den * y.den)

\* a bug: the operands are swapped
fracSubSwapped(x, y) == Frac(y.num * x.den - x.num * y.den, x.den * y.den)

FracSub(x, y) == Frac(x.num * y.den - y.num * x.den, x.den * y.den)

FracMul(x, y) == Frac(x.num * y.num, x.den * y.den)

\* a bug: the divisor and the dividend are swapped (x > 0)
fracDivInverted(x, y) == Frac(y.num * x.den, y.den * x.num)

\* x / y for y # 0
FracDiv(x, y) ==
  IF y.num > 0 THEN Frac(x.num * y.den, x.den * y.num)
  ELSE Frac(-(x.num * y.den), -(x.den * y.num))

FracLeq(x, y) == x.num * y.den <= y.num * x.den

FracLt(x, y) == x.num * y.den < y.num * x.den

\* a bug: the ceiling is always one above the floor
ceilAboveFloor(x) == x.num \div x.den + 1

\* Math.floor and Math.ceil
Floor(x) == x.num \div x.den

Ceil(x) == -((-x.num) \div x.den)

Zero == Frac(0, 1)

One == Frac(1, 1)

\* a bug: a ratio is returned where a percentage is due
hundredAsRatio == Frac(1, 1)

Hundred == Frac(100, 1)

\* a bug: the ratio is not turned into a percentage
ratioOnly(a, b) == Frac(a, b)

\* Number(a) / Number(b) * 100
Percent(a, b) == Frac(100 * a, b)

\* 0 / 0
NaN == [num |-> 0, den |-> 0]

\* parseFloat(x.toFixed(2)) of x >= 0: x rounded to hundredths
toFixed2(x) ==
  LET whole == x.num \div x.den
      rest == x.num % x.den
  IN Frac(100 * whole + (200 * rest + x.den) \div (2 * x.den), 100)

\* x >= 0 lies exactly half-way between two hundredths
isTie(x) ==
  /\ (200 * x.num) % x.den = 0
  /\ ((200 * x.num) \div x.den) % 2 = 1

\* parseFloat(d.toFixed(2)) of a double d that lies below the number x >= 0
\* it stands for, by less than an ulp: the hundredth below when x is
\* half-way between two hundredths, toFixed2(x) otherwise
toFixed2Below(x) ==
  IF isTie(x) THEN FracSub(toFixed2(x), Frac(1, 100)) ELSE toFixed2(x)

(***************************************************************************)
(* combinations and its memo (mathUtils.ts lines 4-25).                    *)
(***************************************************************************)
EmptyMemo == [key \in {} |-> 0]

\* a bug: the key is `${k}`, the same for every n
memoKeyWithoutN(n, k) == <<k>>

\* `${n},${k}`: one key per pair of integers
memoKey(n, k) == <<n, k>>

\* if (comboMemo[key]): the entry exists and is not 0n
memoHit(memo, key) == key \in DOMAIN memo /\ memo[key] # 0

\* a bug: the store replaces the memo instead of adding to it
memoPutFresh(memo, key, res) == [x \in {key} |-> res]

\* a bug: a store under a key already present adds to the entry
memoPutAccumulate(memo, key, res) ==
  [x \in DOMAIN memo \cup {key} |->
     IF x = key THEN (IF key \in DOMAIN memo THEN memo[key] + res ELSE res)
     ELSE memo[x]]

\* comboMemo[key] = res
memoPut(memo, key, res) ==
  [x \in DOMAIN memo \cup {key} |-> IF x = key THEN res ELSE memo[x]]

\* a bug: the mirrored k is one short
reduceKOffByOne(n, k) == IF 2 * k > n THEN n - k - 1 ELSE k

\* if (k > n / 2) k = n - k
reduceK(n, k) == IF 2 * k > n THEN n - k ELSE k

\* a bug: divide, then multiply
combStepDivideFirst(n, i, res) == (res \div i) * (n - i + 1)

\* one pass of the loop body: res = (res * BigInt(n - i + 1)) / BigInt(i)
combStep(n, i, res) == (res * (n - i + 1)) \div i

\* a bug: the loop stops one pass short (i < k)
RECURSIVE combLoopExclusive(_, _, _, _)
combLoopExclusive(n, k, i, res) ==
  IF i >= k THEN res ELSE combLoopExclusive(n, k, i + 1, combStep(n, i, res))

\* for (let i = 1; i <= k; i++), entered with i and res
RECURSIVE combLoop(_, _, _, _)
combLoop(n, k, i, res) ==
  IF i > k THEN res ELSE combLoop(n, k, i + 1, combStep(n, i, res))

\* a bug: line 11, the range check, is missing
combinationsNoRangeCheck(memo, n, k) ==
  IF k = 0 \/ k = n THEN [res |-> 1, memo |-> memo]
  ELSE LET kk == reduceK(n, k)
           key == memoKey(n, kk)
       IN IF memoHit(memo, key)
          THEN [res |-> memo[key], memo |-> memo]
          ELSE LET res == combLoop(n, kk, 1, 1)
               IN [res |-> res, memo |-> memoPut(memo, key, res)]

\* combinations(n, k) run on the memo: the value returned and the memo left
combinations(memo, n, k) ==
  IF k < 0 \/ k > n THEN [res |-> 0, memo |-> memo]
  ELSE IF k = 0 \/ k = n THEN [res |-> 1, memo |-> memo]
  ELSE LET kk == reduceK(n, k)
           key == memoKey(n, kk)
       IN IF memoHit(memo, key)
          THEN [res |-> memo[key], memo |-> memo]
          ELSE LET res == combLoop(n, kk, 1, 1)
               IN [res |-> res, memo |-> memoPut(memo, key, res)]

(***************************************************************************)
(* combinations on values of any size.  A bigint is the sequence of its    *)
(* digits in base 10000, lowest first and the highest not 0, so 0n is the  *)
(* empty sequence; the numbers n - i + 1 and i of line 20 are small.       *)
(***************************************************************************)
limbLow(x) == x % 10000

limbHigh(x) == x \div 10000

\* BigInt(x) for an integer x >= 0
RECURSIVE BigInt(_)
BigInt(x) == IF x <= 0 THEN <<>> ELSE <<limbLow(x)>> \o BigInt(limbHigh(x))

\* a + b of two bigints, entered with the carry of the digits below
RECURSIVE bigAddCarry(_, _, _)
bigAddCarry(a, b, carry) ==
  IF a = <<>> /\ b = <<>> THEN BigInt(carry)
  ELSE LET s == (IF a = <<>> THEN 0 ELSE Head(a)) +
                (IF b = <<>> THEN 0 ELSE Head(b)) + carry
       IN <<limbLow(s)>> \o
          bigAddCarry(IF a = <<>> THEN a ELSE Tail(a),
                      IF b = <<>> THEN b ELSE Tail(b), limbHigh(s))

bigAdd(a, b) == bigAddCarry(a, b, 0)

\* a * BigInt(m) for a small m >= 1, entered with the carry of the digits
\* below
RECURSIVE bigMulCarry(_, _, _)
bigMulCarry(a, m, carry) ==
  IF a = <<>> THEN BigInt(carry)
  ELSE LET p == Head(a) * m + carry
       IN <<limbLow(p)>> \o bigMulCarry(Tail(a), m, limbHigh(p))

bigMul(a, m) == IF m = 0 THEN <<>> ELSE bigMulCarry(a, m, 0)

\* a without the digits 0 at its high end
RECURSIVE bigTrim(_)
bigTrim(a) ==
  IF a = <<>> \/ a[Len(a)] # 0 THEN a ELSE bigTrim(SubSeq(a, 1, Len(a) - 1))

\* the digits j .. 1 of a / BigInt(d), entered with the remainder of the
\* digits above and the digits q of the quotient found so far
RECURSIVE bigDivFrom(_, _, _, _, _)
bigDivFrom(a, d, j, rem, q) ==
  IF j = 0 THEN q
  ELSE LET cur == rem * 10000 + a[j]
       IN bigDivFrom(a, d, j - 1, cur % d, <<cur \div d>> \o q)

\* a / BigInt(d) for a small d >= 1: the quotient, the remainder dropped
bigDiv(a, d) == bigTrim(bigDivFrom(a, d, Len(a), 0, <<>>))

\* if (comboMemo[key]): the entry exists and is not 0n
memoHitBig(memo, key) == key \in DOMAIN memo /\ memo[key] # BigInt(0)

\* res = (res * BigInt(n - i + 1)) / BigInt(i)
combStepBig(n, i, res) == bigDiv(bigMul(res, n - i + 1), i)

\* a bug: the loop stops one pass short (i < k)
RECURSIVE combLoopBigExclusive(_, _, _, _)
combLoopBigExclusive(n, k, i, res) ==
  IF i >= k \/ res = BigInt(0) THEN res
  ELSE combLoopBigExclusive(n, k, i + 1, combStepBig(n, i, res))

\* for (let i = 1; i <= k; i++), entered with i and res.  A res of 0n stays
\* 0n in every pass that is left, so it is returned at once; the test makes
\* the value of res computed before the next pass is entered
RECURSIVE combLoopBig(_, _, _, _)
combLoopBig(n, k, i, res) ==
  IF i > k \/ res = BigInt(0) THEN res
  ELSE combLoopBig(n, k, i + 1, combStepBig(n, i, res))

\* combinations(n, k) run on the memo, its values bigints of any size
combinationsBig(memo, n, k) ==
  IF k < 0 \/ k > n THEN [res |-> BigInt(0), memo |-> memo]
  ELSE IF k = 0 \/ k = n THEN [res |-> BigInt(1), memo |-> memo]
  ELSE LET kk == reduceK(n, k)
           key == memoKey(n, kk)
       IN IF memoHitBig(memo, key)
          THEN [res |-> memo[key], memo |-> memo]
          ELSE LET res == combLoopBig(n, kk, 1, BigInt(1))
               IN [res |-> res, memo |-> memoPut(memo, key, res)]

(***************************************************************************)
(* calculateMultivariateHyper (mathUtils.ts lines 40-90).  A group is      *)
(* [countInDeck, minDesired, maxDesired]; id and name are never read.      *)
(***************************************************************************)
\* a bug: the reduce keeps the last count instead of adding it
sumCountsLastOnly(groups) ==
  IF groups = <<>> THEN 0 ELSE groups[Len(groups)].countInDeck

\* groups.reduce((acc, g) => acc + g.countInDeck, 0)
RECURSIVE sumCounts(_)
sumCounts(groups) ==
  IF groups = <<>> THEN 0
  ELSE Head(groups).countInDeck + sumCounts(Tail(groups))

\* a bug: the loop starts at 0 whatever minDesired is
minTakeFromZero(group) == 0

minTake(group) == Max(0, group.minDesired)

\* a bug: the loop stops one short of the largest take (take < maxTake)
maxTakeExclusive(group, remainingHand) ==
  Min(remainingHand, Min(group.countInDeck, group.maxDesired)) - 1

\* a bug: the room left in the hand does not cap the take
maxTakeAnyHand(group, remainingHand) ==
  Min(group.countInDeck, group.maxDesired)

maxTake(group, remainingHand) ==
  Min(remainingHand, Min(group.countInDeck, group.maxDesired))

\* const otherCount = deckSize - totalInGroups
otherCountOf(deckSize, groups) == deckSize - sumCounts(groups)

\* a bug: the ways of the 'Other' cards are not multiplied in
solveLeafNoOther(st, otherCount, remainingHand, currentWays) ==
  IF remainingHand <= otherCount
  THEN [total |-> st.total + currentWays, memo |-> st.memo]
  ELSE st

\* the leaf of solve: the rest of the hand comes from the 'Other' cards
solveLeaf(st, otherCount, remainingHand, currentWays) ==
  IF remainingHand <= otherCount
  THEN LET c == combinations(st.memo, otherCount, remainingHand)
       IN [total |-> st.total + currentWays * c.res, memo |-> c.memo]
  ELSE st

\* solve and its take loop; st is [total: totalSuccessfulCombinations, memo]
RECURSIVE solve(_, _, _, _, _, _)
RECURSIVE takeLoop(_, _, _, _, _, _, _)
solve(groups, otherCount, st, groupIndex, remainingHand, currentWays) ==
  IF remainingHand < 0 THEN st
  ELSE IF groupIndex = Len(groups)
       THEN solveLeaf(st, otherCount, remainingHand, currentWays)
       ELSE takeLoop(groups, otherCount, st, groupIndex, remainingHand,
                     currentWays, minTake(groups[groupIndex + 1]))

takeLoop(groups, otherCount, st, groupIndex, remainingHand, currentWays, take) ==
  LET group == groups[groupIndex + 1]
  IN IF take > maxTake(group, remainingHand) THEN st
     ELSE LET c == combinations(st.memo, group.countInDeck, take)
              st1 == [total |-> st.total, memo |-> c.memo]
              st2 == IF c.res > 0
                     THEN solve(groups, otherCount, st1, groupIndex + 1,
                                remainingHand - take, currentWays * c.res)
                     ELSE st1
          IN takeLoop(groups, otherCount, st2, groupIndex, remainingHand,
                      currentWays, take + 1)

\* a bug: none of the guards of lines 45, 48 and 52
hyperUnguarded(memo, deckSize, handSize, groups) ==
  LET otherCount == otherCountOf(deckSize, groups)
      tc == combinations(memo, deckSize, handSize)
      st == solve(groups, otherCount, [total |-> 0, memo |-> tc.memo], 0,
                  handSize, 1)
  IN [res |-> IF tc.res = 0 THEN NaN ELSE Percent(st.total, tc.res),
      at |-> 89, successful |-> st.total, total |-> tc.res, memo |-> st.memo]

\* the call: the number returned, the line it returned at, the two counts it
\* divides (0 before they are computed) and the memo left
calculateMultivariateHyper(memo, deckSize, handSize, groups) ==
  IF handSize > deckSize \/ handSize < 0
  THEN [res |-> Zero, at |-> 45, successful |-> 0, total |-> 0, memo |-> memo]
  ELSE IF sumCounts(groups) > deckSize
  THEN [res |-> Zero, at |-> 48, successful |-> 0, total |-> 0, memo |-> memo]
  ELSE LET otherCount == otherCountOf(deckSize, groups)
           tc == combinations(memo, deckSize, handSize)
       IN IF tc.res = 0
          THEN [res |-> Zero, at |-> 52, successful |-> 0, total |-> 0,
                memo |-> tc.memo]
          ELSE LET st == solve(groups, otherCount,
                               [total |-> 0, memo |-> tc.memo], 0, handSize, 1)
               IN [res |-> Percent(st.total, tc.res), at |-> 89,
                   successful |-> st.total, total |-> tc.res, memo |-> st.memo]

(***************************************************************************)
(* calculateProbabilities (mathUtils.ts lines 95-117).                     *)
(***************************************************************************)
\* a bug: both calls of a row ask for exactly lo copies
tmpGroupMaxIsMin(targetCount, lo, hi) ==
  <<[countInDeck |-> targetCount, minDesired |-> lo, maxDesired |-> lo]>>

\* a bug: the calls ask for at most lo copies
tmpGroupAtMost(targetCount, lo, hi) ==
  <<[countInDeck |-> targetCount, minDesired |-> 0, maxDesired |-> lo]>>

\* the single group of a row's two solver calls
tmpGroup(targetCount, lo, hi) ==
  <<[countInDeck |-> targetCount, minDesired |-> lo, maxDesired |-> hi]>>

\* for (let i = 0; i <= maxPossible; i++), entered with i and result.  A row
\* holds exact and cumulativeAtLeast as lines 112 and 113 store them when
\* the double of the solver's result is the exact ratio or lies above it,
\* and exactBelow and cumulativeAtLeastBelow as they store them when the
\* double lies below it; the two differ only when the exact ratio is
\* half-way between two hundredths
RECURSIVE probLoop(_, _, _, _, _, _)
probLoop(memo, deckSize, targetCount, handSize, i, result) ==
  IF i > Min(targetCount, handSize) THEN [res |-> result, memo |-> memo]
  ELSE LET exactProb ==
             calculateMultivariateHyper(memo, deckSize, handSize,
                                        tmpGroup(targetCount, i, i))
           atLeastProb ==
             calculateMultivariateHyper(exactProb.memo, deckSize, handSize,
                                        tmpGroup(targetCount, i, handSize))
           row == [drawCount |-> i, exact |-> toFixed2(exactProb.res),
                   cumulativeAtLeast |-> toFixed2(atLeastProb.res),
                   exactBelow |-> toFixed2Below(exactProb.res),
                   cumulativeAtLeastBelow |-> toFixed2Below(atLeastProb.res)]
       IN probLoop(atLeastProb.memo, deckSize, targetCount, handSize, i + 1,
                   Append(result, row))

\* a bug: the loop starts at one copy
probFromOne(memo, deckSize, targetCount, handSize) ==
  probLoop(memo, deckSize, targetCount, handSize, 1, <<>>)

calculateProbabilities(memo, deckSize, targetCount, handSize) ==
  probLoop(memo, deckSize, targetCount, handSize, 0, <<>>)

\* the values of the rows that a double below the exact ratio would change,
\* named by the hundredth above
tiesOf(rows) ==
  {rows[i].exact : i \in {j \in 1 .. Len(rows) :
                            rows[j].exact # rows[j].exactBelow}}
    \cup {rows[i].cumulativeAtLeast :
            i \in {j \in 1 .. Len(rows) :
                     rows[j].cumulativeAtLeast # rows[j].cumulativeAtLeastBelow}}

\* the table a call of calculateProbabilities returns; below holds the
\* values, named by the hundredth above, whose double lies below the exact
\* ratio: equal ratios are the same double and fall on the same side
TableRet(rows, below) ==
  [i \in 1 .. Len(rows) |->
     [drawCount |-> rows[i].drawCount,
      exact |-> IF rows[i].exact \in below
                THEN rows[i].exactBelow ELSE rows[i].exact,
      cumulativeAtLeast |-> IF rows[i].cumulativeAtLeast \in below
                            THEN rows[i].cumulativeAtLeastBelow
                            ELSE rows[i].cumulativeAtLeast]]

(***************************************************************************)
(* calculateSwissStandings (mathUtils.ts lines 127-142).                   *)
(***************************************************************************)
\* for (let wins = numRounds; wins >= 0; wins--), entered with wins
RECURSIVE swissLoop(_, _, _, _, _)
swissLoop(memo, numPlayers, numRounds, wins, standings) ==
  IF wins < 0 THEN [res |-> standings, memo |-> memo]
  ELSE LET c == combinations(memo, numRounds, wins)
           exactProb == Frac(c.res, Pow2(numRounds))
           count == FracMul(exactProb, FromInt(numPlayers))
           lowerBound == Floor(count)
           upperBound == Max(lowerBound, Ceil(count))
           s == [wins |-> wins, losses |-> numRounds - wins, count |-> count,
                 lowerBound |-> lowerBound, upperBound |-> upperBound]
       IN swissLoop(c.memo, numPlayers, numRounds, wins - 1,
                    Append(standings, s))

\* a bug: the loop starts one win short
swissFromRoundsMinusOne(memo, numPlayers, numRounds) ==
  swissLoop(memo, numPlayers, numRounds, numRounds - 1, <<>>)

calculateSwissStandings(memo, numPlayers, numRounds) ==
  swissLoop(memo, numPlayers, numRounds, numRounds, <<>>)

(***************************************************************************)
(* calculateTopXProbability (mathUtils.ts lines 144-185).                  *)
(***************************************************************************)
\* makeItChanceMap[wins] = chance
chancePut(map, wins, chance) ==
  [w \in DOMAIN map \cup {wins} |-> IF w = wins THEN chance ELSE map[w]]

\* a bug: the chance of the record one win better is looked up
chanceGetOneWinMore(map, finalWins) ==
  IF finalWins + 1 \in DOMAIN map THEN map[finalWins + 1] ELSE Zero

\* makeItChanceMap[finalWins] || 0
chanceGet(map, finalWins) ==
  IF finalWins \in DOMAIN map THEN map[finalWins] ELSE Zero

\* the walk over the standings (lines 159-172), entered with index i
RECURSIVE makeItLoop(_, _, _, _, _)
makeItLoop(standings, targetRank, i, cumulativePlayers, map) ==
  IF i > Len(standings) THEN map
  ELSE LET s == standings[i]
           prevCumulative == cumulativePlayers
           cumulative == FracAdd(cumulativePlayers, s.count)
           chance ==
             IF FracLeq(cumulative, FromInt(targetRank)) THEN One
             ELSE IF FracLt(prevCumulative, FromInt(targetRank))
                  THEN FracDiv(FracSub(FromInt(targetRank), prevCumulative),
                               s.count)
                  ELSE Zero
       IN makeItLoop(standings, targetRank, i + 1, cumulative,
                     chancePut(map, s.wins, chance))

\* the player's own outcomes (lines 177-182), entered with i
RECURSIVE outcomeLoop(_, _, _, _, _, _)
outcomeLoop(memo, map, remainingRounds, currentWins, i, totalProbability) ==
  IF i > remainingRounds THEN [res |-> totalProbability, memo |-> memo]
  ELSE LET c == combinations(memo, remainingRounds, i)
           probGettingMoreWins == Frac(c.res, Pow2(remainingRounds))
           chance == chanceGet(map, currentWins + i)
       IN outcomeLoop(c.memo, map, remainingRounds, currentWins, i + 1,
                      FracAdd(totalProbability,
                              FracMul(probGettingMoreWins, chance)))

\* a bug: the check of the rank comes before the check of the record
topXRankGuardFirst(memo, totalPlayers, totalRounds, targetRank, currentWins, currentLosses) ==
  LET remainingRounds == totalRounds - (currentWins + currentLosses)
  IN IF targetRank >= totalPlayers
     THEN [res |-> Hundred, below |-> Hundred, memo |-> memo]
     ELSE IF remainingRounds < 0
     THEN [res |-> Zero, below |-> Zero, memo |-> memo]
     ELSE LET st == calculateSwissStandings(memo, totalPlayers, totalRounds)
              map == makeItLoop(st.res, targetRank, 1, Zero, EmptyMemo)
              out == outcomeLoop(st.memo, map, remainingRounds, currentWins,
                                 0, Zero)
              percent == FracMul(out.res, Hundred)
          IN [res |-> toFixed2(percent), below |-> toFixed2Below(percent),
              memo |-> out.memo]

\* res is the value returned when the double of totalProbability * 100 is
\* the exact product or lies above it, below the value returned when the
\* double lies below it; the two differ only when the exact product is
\* half-way between two hundredths
calculateTopXProbability(memo, totalPlayers, totalRounds, targetRank, currentWins, currentLosses) ==
  LET remainingRounds == totalRounds - (currentWins + currentLosses)
  IN IF remainingRounds < 0
     THEN [res |-> Zero, below |-> Zero, memo |-> memo]
     ELSE IF targetRank >= totalPlayers
     THEN [res |-> Hundred, below |-> Hundred, memo |-> memo]
     ELSE LET st == calculateSwissStandings(memo, totalPlayers, totalRounds)
              map == makeItLoop(st.res, targetRank, 1, Zero, EmptyMemo)
              out == outcomeLoop(st.memo, map, remainingRounds, currentWins,
                                 0, Zero)
              percent == FracMul(out.res, Hundred)
          IN [res |-> toFixed2(percent), below |-> toFixed2Below(percent),
              memo |-> out.memo]

(***************************************************************************)
(* The engine: a caller calls any entry point on the shared memo, reads    *)
(* what it returned and calls again.  op and args name the call that has   *)
(* just returned, ret holds what it returned; op is "idle" between calls.  *)
(***************************************************************************)
Init ==
  /\ comboMemo = EmptyMemo
  /\ op = "idle"
  /\ args = <<>>
  /\ ret = <<>>

\* the caller has read the result
Return ==
  /\ op # "idle"
  /\ op' = "idle"
  /\ args' = <<>>
  /\ ret' = <<>>
  /\ UNCHANGED comboMemo

CallCombinations ==
  /\ op = "idle"
  /\ \E n \in -1 .. MaxN, k \in -1 .. MaxN + 1 :
    LET c == combinations(comboMemo, n, k)
    IN /\ comboMemo' = c.memo
       /\ op' = "combinations"
       /\ args' = [n |-> n, k |-> k]
       /\ ret' = c.res

\* what a call of calculateMultivariateHyper leaves in ret
HyperRet(c) ==
  [res |-> c.res, at |-> c.at, successful |-> c.successful, total |-> c.total]

HyperStep(in) ==
  LET c == calculateMultivariateHyper(comboMemo, in.deckSize, in.handSize,
                                      in.groups)
  IN /\ comboMemo' = c.memo
     /\ op' = "calculateMultivariateHyper"
     /\ args' = in
     /\ ret' = HyperRet(c)

\* the lists of at most two groups over a set of groups
ListsOf(G) ==
  {<<>>} \cup {<<g>> : g \in G} \cup {<<g, h>> : g \in G, h \in G}

\* the engine's solver calls: pools the guards accept, groups wanting at
\* least 0 or 1 and at most all of their cards
EngineGroups ==
  {[countInDeck |-> c, minDesired |-> lo, maxDesired |-> c] :
     c \in 0 .. MaxN, lo \in 0 .. 1}

EngineHyperInputs ==
  {in \in [deckSize : 0 .. MaxN, handSize : 0 .. MaxN,
           groups : ListsOf(EngineGroups)] :
     in.handSize <= in.deckSize /\ sumCounts(in.groups) <= in.deckSize}

CallHyper == op = "idle" /\ \E in \in EngineHyperInputs : HyperStep(in)

CallProbabilities ==
  /\ op = "idle"
  /\ \E deckSize \in 0 .. MaxN, targetCount \in 0 .. MaxN, handSize \in 0 .. MaxN :
    LET c == calculateProbabilities(comboMemo, deckSize, targetCount, handSize)
    IN \E below \in SUBSET tiesOf(c.res) :
         /\ comboMemo' = c.memo
         /\ op' = "calculateProbabilities"
         /\ args' = [deckSize |-> deckSize, targetCount |-> targetCount,
                     handSize |-> handSize, below |-> below]
         /\ ret' = TableRet(c.res, below)

CallSwiss ==
  /\ op = "idle"
  /\ \E numPlayers \in 0 .. MaxN, numRounds \in 0 .. MaxN :
    LET c == calculateSwissStandings(comboMemo, numPlayers, numRounds)
    IN /\ comboMemo' = c.memo
       /\ op' = "calculateSwissStandings"
       /\ args' = [numPlayers |-> numPlayers, numRounds |-> numRounds]
       /\ ret' = c.res

\* what a call of calculateTopXProbability leaves in ret; below tells on
\* which side of the exact product the double of line 184 lies
TopXRet(c, below) == IF below THEN c.below ELSE c.res

\* the engine's top-rank queries: a record of at most one round more than
\* the event has
EngineTopXInputs ==
  {in \in [totalPlayers : 0 .. MaxN, totalRounds : 0 .. MaxN,
           targetRank : 0 .. MaxN, currentWins : 0 .. MaxN,
           currentLosses : 0 .. MaxN, below : BOOLEAN] :
     in.currentWins + in.currentLosses <= in.totalRounds + 1}

CallTopX ==
  /\ op = "idle"
  /\ \E in \in EngineTopXInputs :
    LET c == calculateTopXProbability(comboMemo, in.totalPlayers,
                                      in.totalRounds, in.targetRank,
                                      in.currentWins, in.currentLosses)
    IN /\ comboMemo' = c.memo
       /\ op' = "calculateTopXProbability"
       /\ args' = in
       /\ ret' = TopXRet(c, in.below)

Next ==
  \/ CallCombinations
  \/ CallHyper
  \/ CallProbabilities
  \/ CallSwiss
  \/ CallTopX
  \/ Return

Spec == Init /\ [][Next]_vars

(***************************************************************************)
(* SpecHyper: one call of the solver on a fresh memo, its input drawn from *)
(* every pool of at most MaxDeck cards with at most two groups (counts     *)
(* from -1, hand sizes from -1 to beyond the pool) and from the two        *)
(* 40-card pools of the specification's known values.                      *)
(***************************************************************************)
HyperGroups ==
  [countInDeck : -1 .. MaxCount, minDesired : 0 .. MaxCount,
   maxDesired : 0 .. MaxCount]

AtLeastOneOfThree ==
  [deckSize |-> 40, handSize |-> 5,
   groups |-> <<[countInDeck |-> 3, minDesired |-> 1, maxDesired |-> 3]>>]

WholeDeckGroup ==
  [deckSize |-> 40, handSize |-> 5,
   groups |-> <<[countInDeck |-> 40, minDesired |-> 0, maxDesired |-> 5]>>]

HyperInputs ==
  [deckSize : 0 .. MaxDeck, handSize : -1 .. MaxDeck + 1,
   groups : ListsOf(HyperGroups)]
    \cup {AtLeastOneOfThree, WholeDeckGroup}

InitHyper ==
  /\ comboMemo = EmptyMemo
  /\ op = "pending"
  /\ args \in HyperInputs
  /\ ret = <<>>

ApplyHyper == op = "pending" /\ HyperStep(args)

SpecHyper == InitHyper /\ [][ApplyHyper]_vars

(***************************************************************************)
(* SpecPascal: the row n of Pascal's triangle, for every n up to           *)
(* MaxSumRow, summed by calls of combinations(n, 0), ..., combinations(n,  *)
(* n) on a memo that starts empty; ret holds the next k and the sum so     *)
(* far.  The values are bigints of any size, as the code's are.            *)
(***************************************************************************)
InitPascal ==
  /\ comboMemo = EmptyMemo
  /\ op = "rowSum"
  /\ args \in [n : 0 .. MaxSumRow]
  /\ ret = [k |-> 0, sum |-> BigInt(0)]

SumStep ==
  /\ op = "rowSum"
  /\ ret.k <= args.n
  /\ LET c == combinationsBig(comboMemo, args.n, ret.k)
     IN /\ comboMemo' = c.memo
        /\ ret' = [k |-> ret.k + 1, sum |-> bigAdd(ret.sum, c.res)]
  /\ UNCHANGED <<op, args>>

SpecPascal == InitPascal /\ [][SumStep]_vars

(***************************************************************************)
(* SpecConc: two callers run combinations on the shared memo with the      *)
(* lookup (line 16), the loop (lines 18-21) and the store (line 23) as     *)
(* separate steps that interleave freely.  op[c] is where caller c stands, *)
(* args[c] its n, k and the k and key of lines 13-15, ret[c] its res.      *)
(***************************************************************************)
Callers == {"a", "b"}

InitConc ==
  /\ comboMemo = EmptyMemo
  /\ op = [c \in Callers |-> "idle"]
  /\ args = [c \in Callers |-> <<>>]
  /\ ret = [c \in Callers |-> <<>>]

\* lines 11-15: the early returns, the reduced k and the key
Enter(c) ==
  /\ op[c] = "idle"
  /\ \E n \in 0 .. MaxN, k \in -1 .. MaxN :
       /\ k <= n + 1
       /\ args' = [args EXCEPT ![c] =
                     [n |-> n, k |-> k, kk |-> reduceK(n, k),
                      key |-> memoKey(n, reduceK(n, k))]]
       /\ IF k < 0 \/ k > n
          THEN op' = [op EXCEPT ![c] = "done"] /\ ret' = [ret EXCEPT ![c] = 0]
          ELSE IF k = 0 \/ k = n
          THEN op' = [op EXCEPT ![c] = "done"] /\ ret' = [ret EXCEPT ![c] = 1]
          ELSE op' = [op EXCEPT ![c] = "lookup"] /\ ret' = ret
  /\ UNCHANGED comboMemo

\* line 16: if (comboMemo[key]) return comboMemo[key]
Lookup(c) ==
  /\ op[c] = "lookup"
  /\ IF memoHit(comboMemo, args[c].key)
     THEN /\ op' = [op EXCEPT ![c] = "done"]
          /\ ret' = [ret EXCEPT ![c] = comboMemo[args[c].key]]
     ELSE /\ op' = [op EXCEPT ![c] = "compute"]
          /\ ret' = ret
  /\ UNCHANGED <<comboMemo, args>>

\* lines 18-21: the loop, on the caller's own res
Compute(c) ==
  /\ op[c] = "compute"
  /\ op' = [op EXCEPT ![c] = "store"]
  /\ ret' = [ret EXCEPT ![c] = combLoop(args[c].n, args[c].kk, 1, 1)]
  /\ UNCHANGED <<comboMemo, args>>

\* lines 23-24: comboMemo[key] = res; return res
Store(c) ==
  /\ op[c] = "store"
  /\ comboMemo' = memoPut(comboMemo, args[c].key, ret[c])
  /\ op' = [op EXCEPT ![c] = "done"]
  /\ UNCHANGED <<args, ret>>

\* the caller has read the result
Leave(c) ==
  /\ op[c] = "done"
  /\ op' = [op EXCEPT ![c] = "idle"]
  /\ args' = [args EXCEPT ![c] = <<>>]
  /\ ret' = [ret EXCEPT ![c] = <<>>]
  /\ UNCHANGED comboMemo

NextConc ==
  \E c \in Callers :
    Enter(c) \/ Lookup(c) \/ Compute(c) \/ Store(c) \/ Leave(c)

SpecConc == InitConc /\ [][NextConc]_vars

(***************************************************************************)
(* SpecTable: calculateProbabilities as a function.  One call on a memo    *)
(* that starts empty, for every small deck, target count and hand size     *)
(* (one below zero included), for the 40-card table of 3 copies in a hand  *)
(* of 5 and for the table of 3 copies in 4000 cards and a hand of 1, whose  *)
(* ratios 99.925 and 0.075 are half-way between two hundredths; below      *)
(* holds the values of the table whose double lies below the exact ratio.  *)
(***************************************************************************)
ThreeOfInForty == [deckSize |-> 40, targetCount |-> 3, handSize |-> 5]

ThreeInFourThousand == [deckSize |-> 4000, targetCount |-> 3, handSize |-> 1]

TableCalls ==
  [deckSize : 0 .. MaxDeck, targetCount : -1 .. MaxN, handSize : -1 .. MaxN]
    \cup {ThreeOfInForty, ThreeInFourThousand}

\* the sides the doubles of the table of a call can lie on
belowOf(deckSize, targetCount, handSize) ==
  SUBSET tiesOf(calculateProbabilities(EmptyMemo, deckSize, targetCount,
                                       handSize).res)

TableInputs ==
  UNION {{[deckSize |-> in.deckSize, targetCount |-> in.targetCount,
           handSize |-> in.handSize, below |-> below] :
            below \in belowOf(in.deckSize, in.targetCount, in.handSize)} :
           in \in TableCalls}

InitTable ==
  /\ comboMemo = EmptyMemo
  /\ op = "pending"
  /\ args \in TableInputs
  /\ ret = <<>>

ApplyTable ==
  /\ op = "pending"
  /\ LET c == calculateProbabilities(comboMemo, args.deckSize,
                                     args.targetCount, args.handSize)
     IN /\ comboMemo' = c.memo
        /\ op' = "calculateProbabilities"
        /\ ret' = TableRet(c.res, args.below)
  /\ UNCHANGED args

SpecTable == InitTable /\ [][ApplyTable]_vars

(***************************************************************************)
(* SpecSwiss: calculateSwissStandings as a function.  One call on a memo   *)
(* that starts empty, for every small field and number of rounds and for   *)
(* 64 players in 6 rounds.                                                 *)
(***************************************************************************)
SixtyFourInSix == [numPlayers |-> 64, numRounds |-> 6]

SwissInputs ==
  [numPlayers : 0 .. MaxPlayers, numRounds : 0 .. MaxN] \cup {SixtyFourInSix}

InitSwiss ==
  /\ comboMemo = EmptyMemo
  /\ op = "pending"
  /\ args \in SwissInputs
  /\ ret = <<>>

ApplySwiss ==
  /\ op = "pending"
  /\ LET c == calculateSwissStandings(comboMemo, args.numPlayers,
                                      args.numRounds)
     IN /\ comboMemo' = c.memo
        /\ op' = "calculateSwissStandings"
        /\ ret' = c.res
  /\ UNCHANGED args

SpecSwiss == InitSwiss /\ [][ApplySwiss]_vars

(***************************************************************************)
(* SpecTopX: calculateTopXProbability as a function.  One call on a memo   *)
(* that starts empty, for every small query (each number from one below    *)
(* zero, the rank from two below), with the double of line 184 on either   *)
(* side of the exact product, and for the whole field of 64 players in 6   *)
(* rounds.                                                                 *)
(***************************************************************************)
WholeFieldOfSixtyFour ==
  [totalPlayers |-> 64, totalRounds |-> 6, targetRank |-> 64,
   currentWins |-> 0, currentLosses |-> 0, below |-> FALSE]

TopXInputs ==
  [totalPlayers : -1 .. MaxPlayers, totalRounds : -1 .. MaxN,
   targetRank : -2 .. MaxPlayers, currentWins : -1 .. MaxN,
   currentLosses : -1 .. MaxN, below : BOOLEAN]
    \cup {WholeFieldOfSixtyFour}

InitTopX ==
  /\ comboMemo = EmptyMemo
  /\ op = "pending"
  /\ args \in TopXInputs
  /\ ret = <<>>

ApplyTopX ==
  /\ op = "pending"
  /\ LET c == calculateTopXProbability(comboMemo, args.totalPlayers,
                                       args.totalRounds, args.targetRank,
                                       args.currentWins, args.currentLosses)
     IN /\ comboMemo' = c.memo
        /\ op' = "calculateTopXProbability"
        /\ ret' = TopXRet(c, args.below)
  /\ UNCHANGED args

SpecTopX == InitTopX /\ [][ApplyTopX]_vars

(***************************************************************************)
(* SpecLoop: the loop of combinations(n, k), one pass per step, for every  *)
(* 0 < k < n <= MaxRow on a memo that starts empty.  args holds n, k and   *)
(* the k of line 13, ret the i and the res of the next pass.               *)
(***************************************************************************)
InitLoop ==
  /\ comboMemo = EmptyMemo
  /\ op = "loop"
  /\ \E n \in 2 .. MaxRow, k \in 1 .. MaxRow - 1 :
       /\ k < n
       /\ args = [n |-> n, k |-> k, kk |-> reduceK(n, k)]
  /\ ret = [i |-> 1, res |-> 1]

\* lines 19-21: one pass of the loop
LoopPass ==
  /\ op = "loop"
  /\ ret.i <= args.kk
  /\ ret' = [i |-> ret.i + 1, res |-> combStep(args.n, ret.i, ret.res)]
  /\ UNCHANGED <<comboMemo, op, args>>

\* lines 23-24: the loop is over, the result is stored and returned
LoopExit ==
  /\ op = "loop"
  /\ ret.i > args.kk
  /\ comboMemo' = memoPut(comboMemo, memoKey(args.n, args.kk), ret.res)
  /\ op' = "returned"
  /\ UNCHANGED <<args, ret>>

NextLoop == LoopPass \/ LoopExit

SpecLoop == InitLoop /\ [][NextLoop]_vars

(***************************************************************************)
(* SpecSolve: the recursion of solve, one step per call entered, per pass  *)
(* of the take loop and per return, for every input of at most two groups  *)
(* that passes the guards of lines 45, 48 and 52, on the memo that line 51 *)
(* leaves when the engine starts with none.  ret holds the call            *)
(* stack, innermost call last, and totalSuccessfulCombinations; a frame is *)
(* a call's groupIndex, remainingHand and currentWays, with take = -1      *)
(* until the call has passed its checks and the take of the next pass of   *)
(* its loop after that.                                                    *)
(***************************************************************************)
SolveGroups ==
  [countInDeck : 0 .. MaxCount, minDesired : -1 .. MaxCount,
   maxDesired : 0 .. MaxCount]

SolveInputs ==
  {in \in [deckSize : 0 .. MaxN, handSize : 0 .. MaxN,
           groups : ListsOf(SolveGroups)] :
     /\ in.handSize <= in.deckSize
     /\ sumCounts(in.groups) <= in.deckSize}

frameOf(groupIndex, remainingHand, currentWays) ==
  [groupIndex |-> groupIndex, remainingHand |-> remainingHand,
   currentWays |-> currentWays, take |-> -1]

\* line 85: solve(0, handSize, 1n), after line 51 has computed
\* combinations(deckSize, handSize) and stored it in the memo
InitSolve ==
  /\ args \in SolveInputs
  /\ comboMemo = combinations(EmptyMemo, args.deckSize, args.handSize).memo
  /\ op = "solve"
  /\ ret = [stack |-> <<frameOf(0, args.handSize, 1)>>, total |-> 0]

TopFrame == ret.stack[Len(ret.stack)]

Popped == SubSeq(ret.stack, 1, Len(ret.stack) - 1)

\* lines 63-71: a call is entered; it returns at once when the hand is
\* overdrawn or when it is a leaf, and starts its loop at minTake otherwise
EnterSolve ==
  /\ op = "solve" /\ ret.stack # <<>>
  /\ TopFrame.take = -1
  /\ LET f == TopFrame
         otherCount == otherCountOf(args.deckSize, args.groups)
     IN IF f.remainingHand < 0
        THEN /\ ret' = [ret EXCEPT !.stack = Popped]
             /\ UNCHANGED comboMemo
        ELSE IF f.groupIndex = Len(args.groups)
        THEN LET st == solveLeaf([total |-> ret.total, memo |-> comboMemo],
                                 otherCount, f.remainingHand, f.currentWays)
             IN /\ ret' = [stack |-> Popped, total |-> st.total]
                /\ comboMemo' = st.memo
        ELSE /\ ret' = [ret EXCEPT !.stack[Len(ret.stack)].take =
                          minTake(args.groups[f.groupIndex + 1])]
             /\ UNCHANGED comboMemo
  /\ UNCHANGED <<op, args>>

\* lines 77-82: one pass of the take loop, or its end and the return
TakePass ==
  /\ op = "solve" /\ ret.stack # <<>>
  /\ TopFrame.take >= 0
  /\ LET f == TopFrame
         group == args.groups[f.groupIndex + 1]
     IN IF f.take > maxTake(group, f.remainingHand)
        THEN /\ ret' = [ret EXCEPT !.stack = Popped]
             /\ UNCHANGED comboMemo
        ELSE LET c == combinations(comboMemo, group.countInDeck, f.take)
                 next == [f EXCEPT !.take = f.take + 1]
             IN /\ comboMemo' = c.memo
                /\ ret' = [ret EXCEPT !.stack =
                     IF c.res > 0
                     THEN Append(Append(Popped, next),
                                 frameOf(f.groupIndex + 1,
                                         f.remainingHand - f.take,
                                         f.currentWays * c.res))
                     ELSE Append(Popped, next)]
  /\ UNCHANGED <<op, args>>

\* line 85 is over: the outermost call has returned
SolveDone ==
  /\ op = "solve" /\ ret.stack = <<>>
  /\ op' = "solved"
  /\ UNCHANGED <<comboMemo, args, ret>>

NextSolve == EnterSolve \/ TakePass \/ SolveDone

SpecSolve == InitSolve /\ [][NextSolve]_vars

(***************************************************************************)
(* SpecOrder: one call of the solver on a memo that starts empty, for      *)
(* every list of three groups that want none or one of their cards at      *)
(* least and one or MaxCount at most, in every pool of at most MaxDeck     *)
(* cards.                                                                  *)
(***************************************************************************)
OrderGroups ==
  [countInDeck : 0 .. MaxCount, minDesired : 0 .. 1,
   maxDesired : {1, MaxCount}]

OrderInputs ==
  {in \in [deckSize : 0 .. MaxDeck, handSize : 0 .. MaxDeck,
           groups : [1 .. 3 -> OrderGroups]] :
     in.handSize <= in.deckSize}

InitOrder ==
  /\ comboMemo = EmptyMemo
  /\ op = "pending"
  /\ args \in OrderInputs
  /\ ret = <<>>

ApplyOrder == op = "pending" /\ HyperStep(args)

SpecOrder == InitOrder /\ [][ApplyOrder]_vars

(***************************************************************************)
(* Reference values: what the properties compare the code against.         *)
(***************************************************************************)
\* the entries 0 .. k of row n of Pascal's triangle, by additions only
RECURSIVE PascalRow(_, _)
PascalRow(n, k) ==
  IF n = 0 THEN [i \in 1 .. k + 1 |-> IF i = 1 THEN 1 ELSE 0]
  ELSE LET p == PascalRow(n - 1, k)
       IN SubSeq([i \in 1 .. k + 1 |-> (IF i = 1 THEN 0 ELSE p[i - 1]) + p[i]],
                 1, k + 1)

\* the binomial coefficient "n choose k"
Binomial(n, k) == IF k < 0 \/ k > n THEN 0 ELSE PascalRow(n, k)[k + 1]

\* the cards 1 .. deckSize; group i holds the next countInDeck cards after
\* those of the groups before it, the cards left are the 'Other' cards
CardsOfGroup(groups, i) ==
  LET before == sumCounts(SubSeq(groups, 1, i - 1))
  IN before + 1 .. before + groups[i].countInDeck

\* the hands of handSize cards
Hands(in) ==
  {h \in SUBSET (1 .. in.deckSize) : Cardinality(h) = in.handSize}

\* the hands in which every group is drawn within [minDesired, maxDesired]
GoodHands(in) ==
  {h \in Hands(in) :
     \A i \in 1 .. Len(in.groups) :
       LET drawn == Cardinality(h \cap CardsOfGroup(in.groups, i))
       IN in.groups[i].minDesired <= drawn /\ drawn <= in.groups[i].maxDesired}

\* 0 <= handSize <= poolSize, counts >= 0, sum of the counts <= poolSize
ValidPool(in) ==
  /\ 0 <= in.handSize /\ in.handSize <= in.deckSize
  /\ \A i \in 1 .. Len(in.groups) : in.groups[i].countInDeck >= 0
  /\ sumCounts(in.groups) <= in.deckSize

HyperReturned == op = "calculateMultivariateHyper"

(***************************************************************************)
(* Properties of the solver (SpecHyper).                                   *)
(***************************************************************************)
\* C1: on every valid pool (of at most MaxDeck cards, where the hands can be
\* listed) the successful ways the solver accumulates are the number of
\* hands that draw every group within its bounds, the total is the number
\* of hands, and the result is 100 times their ratio.
C1_CountsEveryValidHandOnce ==
  (HyperReturned /\ ValidPool(args) /\ args.deckSize <= MaxDeck) =>
    /\ ret.at = 89
    /\ ret.successful = Cardinality(GoodHands(args))
    /\ ret.total = Cardinality(Hands(args))
    /\ ret.res = Frac(100 * Cardinality(GoodHands(args)),
                      Cardinality(Hands(args)))

\* two constrained groups and 'Other' cards, some hands good and some not
C1_Witness ==
  /\ HyperReturned /\ ValidPool(args) /\ args.deckSize <= MaxDeck
  /\ Len(args.groups) = 2
  /\ args.groups[1].minDesired >= 1
  /\ args.groups[2].countInDeck > args.groups[2].maxDesired
  /\ sumCounts(args.groups) < args.deckSize
  /\ 0 < ret.successful /\ ret.successful < ret.total

\* C2: whatever the input, the percentage returned lies in [0,100]; the
\* successful ways are never negative and never more than C(pool, hand).
C2_PercentageInRange ==
  HyperReturned =>
    /\ 0 <= ret.res.num /\ ret.res.num <= 100 * ret.res.den /\ ret.res.den > 0
    /\ 0 <= ret.successful
    /\ ret.at = 89 =>
         /\ ret.successful <= ret.total
         /\ ret.total = Binomial(args.deckSize, args.handSize)

\* every hand is good although two groups constrain it: the upper end
C2_Witness ==
  /\ HyperReturned /\ ret.at = 89
  /\ Len(args.groups) = 2
  /\ ret.total > 1 /\ ret.successful = ret.total

\* an input outside the domain of the solver
OutOfDomain(in) ==
  \/ in.handSize > in.deckSize
  \/ sumCounts(in.groups) > in.deckSize
  \/ Binomial(in.deckSize, in.handSize) = 0
  \/ in.handSize < 0
  \/ \E i \in 1 .. Len(in.groups) : in.groups[i].countInDeck < 0

\* C3: the solver returns exactly 0 for every out-of-domain input: hand
\* larger than the pool, counts summing to more than the pool, no
\* combinations at all, a negative hand size or a negative group count.
C3_OutOfDomainIsZero ==
  (HyperReturned /\ OutOfDomain(args)) => ret.res = Zero

\* a negative count that no guard catches: the enumeration itself finds 0
C3_Witness ==
  /\ HyperReturned /\ OutOfDomain(args)
  /\ ret.at = 89 /\ ret.res = Zero
  /\ \E i \in 1 .. Len(args.groups) : args.groups[i].countInDeck < 0

\* C4 as claimed: the 40-card pool, 5-card hand, at least one of a 3-of
\* rounds to 39.76.
C4_KnownValueAsClaimed ==
  (HyperReturned /\ args = AtLeastOneOfThree) =>
    toFixed2(ret.res) = Frac(3976, 100)

\* C4: the 40-card pool, 5-card hand, at least one of a 3-of: the solver
\* counts 222111 of 658008 hands, which rounds to 33.76.
C4_KnownValue ==
  (HyperReturned /\ args = AtLeastOneOfThree) =>
    /\ ret.successful = 222111 /\ ret.total = 658008
    /\ toFixed2(ret.res) = Frac(3376, 100)

C4_Witness == HyperReturned /\ args = AtLeastOneOfThree /\ ret.at = 89

\* one group that constrains nothing
Unconstrained(in) ==
  /\ 0 <= in.handSize /\ in.handSize <= in.deckSize
  /\ Len(in.groups) = 1
  /\ 0 <= in.groups[1].countInDeck /\ in.groups[1].countInDeck <= in.deckSize
  /\ in.groups[1].minDesired = 0
  /\ in.groups[1].maxDesired >= Min(in.groups[1].countInDeck, in.handSize)

\* C5: a valid pool with a single unconstrained group yields exactly 100:
\* the successful ways over all takes are C(pool, hand); so does the
\* 40-card pool whose single group is the whole deck.
C5_UnconstrainedIsHundred ==
  /\ Unconstrained(WholeDeckGroup)
  /\ (HyperReturned /\ Unconstrained(args)) =>
       ret.res = Hundred /\ ret.successful = ret.total

C5_Witness ==
  HyperReturned /\ args = WholeDeckGroup /\ ret.total = 658008

(***************************************************************************)
(* Properties of combinations and its memo (Spec, SpecPascal).             *)
(***************************************************************************)
CombinationsReturned == op = "combinations"

\* C6: combinations(n, k) is 0 whenever k < 0 or k > n, and 1 whenever
\* k = 0 or k = n with n >= 0.
C6_EdgeValues ==
  CombinationsReturned =>
    /\ (args.k < 0 \/ args.k > args.n) => ret = 0
    /\ (args.n >= 0 /\ (args.k = 0 \/ args.k = args.n)) => ret = 1

C6_Witness ==
  /\ CombinationsReturned
  /\ args.n = MaxN /\ args.k = args.n /\ ret = 1

\* C7: whatever the memo holds, combinations(n, k) and the call of
\* combinations(n, n - k) that follows it return the same value, and so
\* does the call that follows a combinations(n, k) that has just returned.
C7_Symmetry ==
  /\ \A n \in 0 .. MaxN : \A k \in 0 .. n :
       LET first == combinations(comboMemo, n, k)
       IN combinations(first.memo, n, n - k).res = first.res
  /\ (CombinationsReturned /\ 0 <= args.k /\ args.k <= args.n) =>
       combinations(comboMemo, args.n, args.n - args.k).res = ret

\* the mirrored k has been called: the memo holds the reduced key
C7_Witness ==
  /\ CombinationsReturned
  /\ 2 * args.k > args.n /\ args.k < args.n
  /\ memoKey(args.n, args.n - args.k) \in DOMAIN comboMemo
  /\ ret = args.n

\* 2^e as a bigint, by doubling
RECURSIVE bigPow2(_)
bigPow2(e) ==
  IF e <= 0 THEN <<1>> ELSE LET half == bigPow2(e - 1) IN bigAdd(half, half)

\* the integer a bigint stands for, when the model's integers hold it
RECURSIVE bigValue(_)
bigValue(a) == IF a = <<>> THEN 0 ELSE Head(a) + 10000 * bigValue(Tail(a))

\* C8: for every n from 0 to MaxSumRow (40) the calls combinations(n, 0),
\* ..., combinations(n, n) sum to 2^n exactly; and up to row MaxRow, whose
\* values the model's integers hold, the sum is the integer 2^n and every
\* value stored is the one combinations computes on integers.
C8_RowSum ==
  (op = "rowSum" /\ ret.k = args.n + 1) =>
    /\ ret.sum = bigPow2(args.n)
    /\ args.n <= MaxRow =>
         /\ bigValue(ret.sum) = Pow2(args.n)
         /\ \A key \in DOMAIN comboMemo :
              bigValue(comboMemo[key]) =
                combinations(EmptyMemo, key[1], key[2]).res

\* row 40 summed: 2^40 = 1099511627776, past the 2^32 of an integer of 32
\* bits and with C(40, 20) = 137846528820 among its values
C8_Witness ==
  /\ op = "rowSum" /\ args.n = 40 /\ ret.k = args.n + 1
  /\ ret.sum = <<7776, 1162, 995, 1>>
  /\ memoKey(40, 20) \in DOMAIN comboMemo
  /\ comboMemo[memoKey(40, 20)] = <<8820, 4652, 1378>>

\* every entry of the memo is the binomial coefficient of its key
MemoCorrect ==
  \A key \in DOMAIN comboMemo : comboMemo[key] = Binomial(key[1], key[2])

\* a step neither removes nor changes an entry
MemoStable ==
  \A key \in DOMAIN comboMemo :
    key \in DOMAIN comboMemo' /\ comboMemo'[key] = comboMemo[key]

\* C9: the memo is a pure cache: every entry under (n, k) is C(n, k), and
\* an entry once written is never modified or removed.
C9_PureCache == [](MemoCorrect) /\ [][MemoStable]_vars

\* the memo holds every key the engine's calls can write
C9_Witness ==
  \A n \in 2 .. MaxN : \A k \in 1 .. n \div 2 :
    memoKey(n, k) \in DOMAIN comboMemo

(***************************************************************************)
(* Idempotence of the entry points (Spec).                                 *)
(***************************************************************************)
\* what the call that has just returned returns on a memo that holds nothing
OnEmptyMemo ==
  CASE op = "combinations" ->
         combinations(EmptyMemo, args.n, args.k).res
    [] op = "calculateMultivariateHyper" ->
         HyperRet(calculateMultivariateHyper(EmptyMemo, args.deckSize,
                                             args.handSize, args.groups))
    [] op = "calculateProbabilities" ->
         TableRet(calculateProbabilities(EmptyMemo, args.deckSize,
                                         args.targetCount,
                                         args.handSize).res, args.below)
    [] op = "calculateSwissStandings" ->
         calculateSwissStandings(EmptyMemo, args.numPlayers,
                                 args.numRounds).res
    [] op = "calculateTopXProbability" ->
         TopXRet(calculateTopXProbability(EmptyMemo, args.totalPlayers,
                                          args.totalRounds, args.targetRank,
                                          args.currentWins,
                                          args.currentLosses),
                 args.below)

\* C10: every call of an entry point, whatever calls came before it and
\* whatever they left in the memo, returns what the same call returns on an
\* empty memo; so two calls with identical inputs return identical results.
C10_Idempotent == op # "idle" => ret = OnEmptyMemo

\* a top-rank query answered from a memo that earlier calls have filled
C10_Witness ==
  /\ op = "calculateTopXProbability"
  /\ \A n \in 2 .. MaxN : \A k \in 1 .. n \div 2 :
       memoKey(n, k) \in DOMAIN comboMemo
  /\ ret # Zero /\ ret # Hundred

(***************************************************************************)
(* Interleaved callers (SpecConc).                                         *)
(***************************************************************************)
\* C11: however two callers interleave the lookup, the loop and the store
\* of combinations, every call returns C(n, k), every value about to be
\* stored is C(n, k) and every memo entry is the binomial coefficient of
\* its key: an interleaving only makes a caller compute or store again a
\* value the memo already holds.
C11_InterleavingIsHarmless ==
  /\ \A c \in Callers :
       /\ op[c] \in {"store", "done"} =>
            ret[c] = Binomial(args[c].n, args[c].k)
       /\ (op[c] = "store" /\ args[c].key \in DOMAIN comboMemo) =>
            comboMemo[args[c].key] = ret[c]
  /\ MemoCorrect

\* a redundant computation: a caller is about to store under a key that the
\* other caller stored after this one looked it up
C11_Witness ==
  \E c \in Callers :
    /\ op[c] = "store"
    /\ args[c].key \in DOMAIN comboMemo
    /\ args[c].k # args[c].kk

(***************************************************************************)
(* Properties of the draw table (SpecTable).                               *)
(***************************************************************************)
TableReturned == op = "calculateProbabilities"

\* what the solver returns for a single group, on its own
solverOf(deckSize, handSize, countInDeck, minDesired, maxDesired) ==
  calculateMultivariateHyper(
    EmptyMemo, deckSize, handSize,
    <<[countInDeck |-> countInDeck, minDesired |-> minDesired,
       maxDesired |-> maxDesired]>>).res

\* C12: the table has min(targetCount, handSize) + 1 rows and the copies of
\* row number i (counted from 1) are i - 1, so the copies run 0, 1, ...,
\* min(targetCount, handSize), each one above the row before.
C12_RowsZeroToMin ==
  TableReturned =>
    /\ Len(ret) = Min(args.targetCount, args.handSize) + 1
    /\ \A i \in 1 .. Len(ret) : ret[i].drawCount = i - 1
    /\ \A i \in 1 .. Len(ret) - 1 : ret[i].drawCount < ret[i + 1].drawCount

\* a table of three rows or more, cut by the hand size and not by the count
C12_Witness ==
  /\ TableReturned
  /\ Len(ret) >= 3
  /\ args.handSize < args.targetCount
  /\ ret[Len(ret)].drawCount = args.handSize


\* the hundredths that rounding a double of the ratio x to two decimal
\* places can give: the nearest one, and for a ratio half-way between two
\* hundredths the one above or the one below, as the double lies
roundedOf(x) == {toFixed2(x), toFixed2Below(x)}

\* C13: in every row exact is what the solver returns for the single group
\* of targetCount cards drawn exactly drawCount times and cumulativeAtLeast
\* what it returns for the group drawn drawCount to handSize times, each
\* rounded to two decimal places as lines 112 and 113 do.
C13_RowsAreRoundedSolverResults ==
  TableReturned =>
    \A i \in 1 .. Len(ret) :
      LET copies == ret[i].drawCount
      IN /\ ret[i].exact \in
              roundedOf(solverOf(args.deckSize, args.handSize,
                                 args.targetCount, copies, copies))
         /\ ret[i].cumulativeAtLeast \in
              roundedOf(solverOf(args.deckSize, args.handSize,
                                 args.targetCount, copies, args.handSize))

\* C13 as the specification states it: the two values of a row are the
\* solver's results themselves.
C13_RowsAreSolverResults ==
  TableReturned =>
    \A i \in 1 .. Len(ret) :
      LET copies == ret[i].drawCount
      IN /\ ret[i].exact =
              solverOf(args.deckSize, args.handSize,
                       args.targetCount, copies, copies)
         /\ ret[i].cumulativeAtLeast =
              solverOf(args.deckSize, args.handSize,
                       args.targetCount, copies, args.handSize)

\* a row whose two values differ from each other and from the solver's own
\* results, which have more than two decimal places
C13_Witness ==
  /\ TableReturned
  /\ \E i \in 1 .. Len(ret) :
       /\ ret[i].exact # ret[i].cumulativeAtLeast
       /\ ret[i].exact #
            solverOf(args.deckSize, args.handSize, args.targetCount,
                     ret[i].drawCount, ret[i].drawCount)
       /\ ret[i].cumulativeAtLeast #
            solverOf(args.deckSize, args.handSize, args.targetCount,
                     ret[i].drawCount, args.handSize)

\* C14: when 0 <= targetCount <= deckSize and 0 <= handSize <= deckSize the
\* row of zero copies, the first one, has cumulativeAtLeast = 100.
C14_AtLeastZeroIsHundred ==
  (/\ TableReturned
   /\ 0 <= args.targetCount /\ args.targetCount <= args.deckSize
   /\ 0 <= args.handSize /\ args.handSize <= args.deckSize) =>
    /\ Len(ret) >= 1
    /\ ret[1].drawCount = 0
    /\ ret[1].cumulativeAtLeast = Hundred

\* the 40-card table of the claim: drawing no copy at all is not certain,
\* drawing none or more is
C14_Witness ==
  /\ TableReturned
  /\ args.deckSize = 40 /\ args.targetCount = 3 /\ args.handSize = 5
  /\ ret[1].cumulativeAtLeast = Hundred
  /\ FracLt(ret[1].exact, Hundred)
  /\ FracLt(Zero, ret[1].exact)

\* C15: cumulativeAtLeast never rises from a row to the next one.
C15_AtLeastNonIncreasing ==
  TableReturned =>
    \A i \in 1 .. Len(ret) - 1 :
      FracLeq(ret[i + 1].cumulativeAtLeast, ret[i].cumulativeAtLeast)

\* a table whose cumulativeAtLeast falls at every one of three steps
C15_Witness ==
  /\ TableReturned
  /\ Len(ret) >= 4
  /\ \A i \in 1 .. Len(ret) - 1 :
       FracLt(ret[i + 1].cumulativeAtLeast, ret[i].cumulativeAtLeast)

\* C16: with targetCount = 0 and 0 <= handSize <= deckSize the call returns
\* the table of the single row of 0 copies, exact 100 and cumulativeAtLeast
\* 100.
C16_ZeroTargetIsTrivialTable ==
  (/\ TableReturned
   /\ args.targetCount = 0
   /\ 0 <= args.handSize /\ args.handSize <= args.deckSize) =>
    ret = <<[drawCount |-> 0, exact |-> Hundred,
             cumulativeAtLeast |-> Hundred]>>

\* no target card in a deck with cards, for a hand that holds some of them
C16_Witness ==
  /\ TableReturned
  /\ args.targetCount = 0
  /\ 0 < args.handSize /\ args.handSize < args.deckSize
  /\ Len(ret) = 1
  /\ ret[1].exact = Hundred

(***************************************************************************)
(* Properties of the Swiss standings (SpecSwiss).                          *)
(***************************************************************************)
SwissReturned == op = "calculateSwissStandings"

\* the sum of the count of the entries i .. Len(standings)
RECURSIVE sumOfCounts(_, _)
sumOfCounts(standings, i) ==
  IF i > Len(standings) THEN Zero
  ELSE FracAdd(standings[i].count, sumOfCounts(standings, i + 1))

\* C17: the standings have numRounds + 1 entries, entry number i (counted
\* from 1) is the one of numRounds - i + 1 wins, so wins fall by one from
\* numRounds to 0, and in every entry wins + losses = numRounds, losses >= 0.
C17_OneEntryPerWinCount ==
  SwissReturned =>
    /\ Len(ret) = args.numRounds + 1
    /\ ret[1].wins = args.numRounds
    /\ ret[Len(ret)].wins = 0
    /\ \A i \in 1 .. Len(ret) - 1 : ret[i].wins > ret[i + 1].wins
    /\ \A i \in 1 .. Len(ret) :
         /\ ret[i].wins + ret[i].losses = args.numRounds
         /\ ret[i].losses >= 0

\* standings of several rounds, from no loss down to no win
C17_Witness ==
  /\ SwissReturned
  /\ Len(ret) >= 4
  /\ ret[1].losses = 0
  /\ ret[Len(ret)].losses = args.numRounds

\* C18: the counts of the entries add up to numPlayers.
C18_CountsSumToPlayers ==
  SwissReturned => sumOfCounts(ret, 1) = FromInt(args.numPlayers)

\* 64 players in 6 rounds: seven counts, not all whole, that add up to 64
C18_Witness ==
  /\ SwissReturned
  /\ args = SixtyFourInSix
  /\ sumOfCounts(ret, 1) = FromInt(64)
  /\ Len(ret) = 7

\* C19: the entry of w wins has count C(numRounds, w) / 2^numRounds *
\* numPlayers, and so the entry of numRounds wins, the first one, has count
\* numPlayers / 2^numRounds.
C19_CountIsBinomialShare ==
  SwissReturned =>
    /\ \A i \in 1 .. Len(ret) :
         ret[i].count =
           Frac(Binomial(args.numRounds, ret[i].wins) * args.numPlayers,
                Pow2(args.numRounds))
    /\ ret[1].count = Frac(args.numPlayers, Pow2(args.numRounds))

\* 64 players in 6 rounds: one player is expected to win every round, 20 to
\* win three
C19_Witness ==
  /\ SwissReturned
  /\ args = SixtyFourInSix
  /\ ret[1].wins = 6 /\ ret[1].count = One
  /\ ret[4].wins = 3 /\ ret[4].count = FromInt(20)

\* C20: lowerBound is the largest integer <= count, upperBound the smallest
\* integer >= count and never below lowerBound; so lowerBound <= count <=
\* upperBound, upperBound - lowerBound <= 1, and the two are equal when
\* count is a whole number.
C20_BoundsBracketCount ==
  SwissReturned =>
    \A i \in 1 .. Len(ret) :
      LET e == ret[i]
      IN /\ FracLeq(FromInt(e.lowerBound), e.count)
         /\ FracLt(e.count, FromInt(e.lowerBound + 1))
         /\ FracLeq(e.count, FromInt(e.upperBound))
         /\ FracLt(FromInt(e.upperBound - 1), e.count)
              \/ e.upperBound = e.lowerBound
         /\ e.lowerBound <= e.upperBound
         /\ e.upperBound - e.lowerBound <= 1
         /\ e.count.den = 1 => e.lowerBound = e.upperBound

\* standings with a whole count, whose bounds meet, and a count between two
\* integers, whose bounds are one apart
C20_Witness ==
  /\ SwissReturned
  /\ \E i \in 1 .. Len(ret) :
       /\ ret[i].count.den = 1 /\ ret[i].count.num > 0
       /\ ret[i].lowerBound = ret[i].upperBound
  /\ \E i \in 1 .. Len(ret) :
       /\ ret[i].count.den > 1
       /\ ret[i].upperBound = ret[i].lowerBound + 1

(***************************************************************************)
(* Properties of the top-rank estimate (SpecTopX).                         *)
(***************************************************************************)
TopXReturned == op = "calculateTopXProbability"

\* totalRounds - (currentWins + currentLosses) of the query in args
RemainingRounds == args.totalRounds - (args.currentWins + args.currentLosses)

\* C21: a query whose record has more games than the event has rounds
\* returns 0, whatever totalPlayers and targetRank are.
C21_RecordBeyondRoundsIsZero ==
  (TopXReturned /\ args.currentWins + args.currentLosses > args.totalRounds)
    => ret = FromInt(0)

\* such a record in a query whose rank covers the whole field
C21_Witness ==
  /\ TopXReturned
  /\ args.currentWins + args.currentLosses > args.totalRounds
  /\ args.currentWins >= 0 /\ args.currentLosses >= 0
  /\ args.targetRank >= args.totalPlayers
  /\ args.totalPlayers > 0
  /\ ret = FromInt(0)

\* C22: a query whose record fits the rounds of the event and whose
\* targetRank is at least totalPlayers returns 100.
C22_WholeFieldIsHundred ==
  (/\ TopXReturned
   /\ RemainingRounds >= 0
   /\ args.targetRank >= args.totalPlayers) => ret = FromInt(100)

\* C22 as the specification states it: every query whose targetRank is at
\* least totalPlayers returns 100.
C22_WholeFieldIsHundredAlways ==
  (TopXReturned /\ args.targetRank >= args.totalPlayers) => ret = FromInt(100)

\* the whole field of 64 players, before the first of 6 rounds
C22_Witness ==
  /\ TopXReturned
  /\ args = WholeFieldOfSixtyFour
  /\ ret = FromInt(100)


\* the query passes both guards and walks the standings
WalksStandings ==
  TopXReturned /\ RemainingRounds >= 0 /\ args.targetRank < args.totalPlayers

\* makeItChanceMap as the walk of lines 159-172 leaves it for the query
ChanceMap ==
  makeItLoop(
    calculateSwissStandings(EmptyMemo, args.totalPlayers,
                            args.totalRounds).res,
    args.targetRank, 1, Zero, EmptyMemo)

\* probGettingMoreWins of line 179 for i more wins
WeightOf(i) ==
  Frac(combinations(EmptyMemo, RemainingRounds, i).res, Pow2(RemainingRounds))

\* the sum of the weights of i .. RemainingRounds more wins
RECURSIVE sumOfWeights(_)
sumOfWeights(i) ==
  IF i > RemainingRounds THEN Zero
  ELSE FracAdd(WeightOf(i), sumOfWeights(i + 1))

\* C23: the value returned is a percentage, 0 <= ret <= 100; when the
\* standings are walked every chance in the map lies in [0, 1] and the
\* weights of the outcomes 0 .. remainingRounds add up to 1.
C23_PercentageInRange ==
  /\ TopXReturned => FracLeq(FromInt(0), ret) /\ FracLeq(ret, FromInt(100))
  /\ WalksStandings =>
       /\ \A w \in DOMAIN ChanceMap :
            FracLeq(FromInt(0), ChanceMap[w]) /\ FracLeq(ChanceMap[w], FromInt(1))
       /\ sumOfWeights(0) = FromInt(1)

\* a cutoff inside a bucket: a chance strictly between 0 and 1 and a
\* result strictly between 0 and 100, with rounds left to play
C23_Witness ==
  /\ WalksStandings
  /\ RemainingRounds >= 2
  /\ \E w \in DOMAIN ChanceMap :
       FracLt(FromInt(0), ChanceMap[w]) /\ FracLt(ChanceMap[w], FromInt(1))
  /\ FracLt(FromInt(0), ret) /\ FracLt(ret, FromInt(100))


\* The claimed formula, in whole numbers of 1 / 2^totalRounds players.
\* the players of the bucket of w wins
bucketSize(w) == Binomial(args.totalRounds, w) * args.totalPlayers

\* the players of the buckets of more than w wins
RECURSIVE cumulativeBefore(_)
cumulativeBefore(w) ==
  IF w >= args.totalRounds THEN 0
  ELSE bucketSize(w + 1) + cumulativeBefore(w + 1)

cumulativeAfter(w) == cumulativeBefore(w) + bucketSize(w)

\* the qualification chance of the bucket of w wins
chanceOfBucket(w) ==
  LET rank == args.targetRank * Pow2(args.totalRounds)
  IN IF cumulativeAfter(w) <= rank THEN FromInt(1)
     ELSE IF cumulativeBefore(w) >= rank THEN FromInt(0)
     ELSE Frac(rank - cumulativeBefore(w), bucketSize(w))

\* the sum over additionalWins = i .. remainingRounds of weight * chance
RECURSIVE weightedChances(_)
weightedChances(i) ==
  IF i > RemainingRounds THEN FromInt(0)
  ELSE FracAdd(
         FracMul(Frac(Binomial(RemainingRounds, i), Pow2(RemainingRounds)),
                 chanceOfBucket(args.currentWins + i)),
         weightedChances(i + 1))

\* a record of the event: no negative wins or losses
RecordOfEvent == args.currentWins >= 0 /\ args.currentLosses >= 0

\* C24: for a query that walks the standings from a record of the event,
\* the value returned is 100 times the sum of weight * chance over the
\* outcomes of the remaining rounds, rounded to two decimal places: a
\* whole number of hundredths at most half a hundredth away from it.
C24_WeightedChanceFormula ==
  (WalksStandings /\ RecordOfEvent) =>
    LET exact == FracMul(FromInt(100), weightedChances(0))
    IN /\ (100 * ret.num) % ret.den = 0
       /\ FracLeq(FracSub(exact, ret), Frac(1, 200))
       /\ FracLeq(FracSub(ret, exact), Frac(1, 200))

\* a cutoff inside the bucket of one of the records the player can still
\* reach, with rounds played and rounds left
C24_Witness ==
  /\ WalksStandings /\ RecordOfEvent
  /\ args.currentWins + args.currentLosses >= 1
  /\ RemainingRounds >= 2
  /\ \E i \in 0 .. RemainingRounds :
       /\ FracLt(FromInt(0), chanceOfBucket(args.currentWins + i))
       /\ FracLt(chanceOfBucket(args.currentWins + i), FromInt(1))
  /\ ret.den = 100


\* C25: in every query whose record fits the rounds and that reaches the
\* enumeration of lines 177-182, each finalWins = currentWins + i for i in
\* 0 .. remainingRounds has an entry in makeItChanceMap, so line 180 never
\* falls back to 0 for a missing entry.
C25_EveryFinalWinsHasEntry ==
  WalksStandings =>
    \A i \in 0 .. RemainingRounds : args.currentWins + i \in DOMAIN ChanceMap

(***************************************************************************)
(* The loop of combinations (SpecLoop).                                    *)
(***************************************************************************)
\* C26: before the pass of step i the running res is C(n, i - 1) and
\* res * (n - i + 1) is divisible by i with no remainder, so after the pass
\* res is C(n, i); the value returned is C(n, k).
C26_EveryDivisionIsExact ==
  /\ op = "loop" =>
       /\ ret.res = Binomial(args.n, ret.i - 1)
       /\ ret.i <= args.kk =>
            /\ (ret.res * (args.n - ret.i + 1)) % ret.i = 0
            /\ combStep(args.n, ret.i, ret.res) = Binomial(args.n, ret.i)
  /\ op = "returned" => ret.res = Binomial(args.n, args.k)

\* a pass in which res alone is not divisible by i: dividing first would
\* truncate, multiplying first does not
C26_Witness ==
  /\ op = "loop"
  /\ ret.i <= args.kk
  /\ ret.i >= 3
  /\ ret.res % ret.i # 0
  /\ args.k # args.kk

(***************************************************************************)
(* The recursion of solve (SpecSolve).                                     *)
(***************************************************************************)
\* C27: every call of solve, pending or running, has remainingHand >= 0
\* and groupIndex <= groups.length, so the check of line 63 never returns;
\* and the calls add up to the total the solver returns as a whole.
C27_HandNeverOverdrawn ==
  /\ op = "solve" =>
       \A j \in 1 .. Len(ret.stack) :
         /\ ret.stack[j].remainingHand >= 0
         /\ ret.stack[j].groupIndex >= 0
         /\ ret.stack[j].groupIndex <= Len(args.groups)
  /\ op = "solved" =>
       ret.total =
         calculateMultivariateHyper(EmptyMemo, args.deckSize, args.handSize,
                                    args.groups).successful

\* a leaf call of a hand that the two groups before it have filled up
C27_Witness ==
  /\ op = "solve"
  /\ Len(ret.stack) = 3
  /\ TopFrame.groupIndex = 2
  /\ TopFrame.remainingHand = 0
  /\ args.handSize >= 2
  /\ ret.stack[2].remainingHand > 0 /\ ret.stack[2].remainingHand < args.handSize

(***************************************************************************)
(* Relations between results (SpecTable, SpecTopX, SpecHyper).             *)
(***************************************************************************)
\* totalSuccessfulCombinations of the solver call for targetCount cards
\* drawn lo to hi times, for the table in args
successfulOf(lo, hi) ==
  calculateMultivariateHyper(
    EmptyMemo, args.deckSize, args.handSize,
    <<[countInDeck |-> args.targetCount, minDesired |-> lo,
       maxDesired |-> hi]>>).successful

\* the successful ways of the exact calls of the rows of j .. last copies
RECURSIVE exactFrom(_, _)
exactFrom(j, last) ==
  IF j > last THEN 0 ELSE successfulOf(j, j) + exactFrom(j + 1, last)

\* C28: the successful ways of the atLeast call of a row are the sum of
\* the successful ways of the exact calls of that row and of all rows after
\* it; the last row has cumulativeAtLeast = exact.
C28_AtLeastIsSumOfExact ==
  TableReturned =>
    LET last == Min(args.targetCount, args.handSize)
    IN /\ \A i \in 0 .. last :
            successfulOf(i, args.handSize) = exactFrom(i, last)
       /\ Len(ret) >= 1 => ret[Len(ret)].cumulativeAtLeast = ret[Len(ret)].exact

\* a table of three rows or more whose atLeast ways are, in the first row,
\* more than the exact ways of any single row
C28_Witness ==
  /\ TableReturned
  /\ Len(ret) >= 3
  /\ \A j \in 0 .. Len(ret) - 1 : successfulOf(j, j) > 0
  /\ successfulOf(0, args.handSize) > successfulOf(0, 0) + successfulOf(1, 1)


\* the standings of the event of the query in args
StandingsOfEvent ==
  calculateSwissStandings(EmptyMemo, args.totalPlayers, args.totalRounds).res

\* the expected number of qualifiers of the entries i .. last: count * chance
RECURSIVE qualifiersFrom(_)
qualifiersFrom(i) ==
  IF i > Len(StandingsOfEvent) THEN FromInt(0)
  ELSE FracAdd(FracMul(StandingsOfEvent[i].count,
                       ChanceMap[StandingsOfEvent[i].wins]),
               qualifiersFrom(i + 1))

\* no round played, a field with players and a rank inside the field
BeforeFirstRound ==
  /\ TopXReturned
  /\ args.currentWins = 0 /\ args.currentLosses = 0
  /\ args.totalPlayers > 0 /\ args.totalRounds >= 0
  /\ 0 <= args.targetRank /\ args.targetRank < args.totalPlayers

\* C29: before the first round the value returned is 100 * targetRank /
\* totalPlayers rounded to two decimal places (a whole number of hundredths
\* at most half a hundredth away), and the expected number of qualifiers,
\* the sum of count * chance over the buckets, is targetRank.
C29_NoRoundPlayedIsRankShare ==
  BeforeFirstRound =>
    LET share == Frac(100 * args.targetRank, args.totalPlayers)
    IN /\ (100 * ret.num) % ret.den = 0
       /\ FracLeq(FracSub(share, ret), Frac(1, 200))
       /\ FracLeq(FracSub(ret, share), Frac(1, 200))
       /\ qualifiersFrom(1) = FromInt(args.targetRank)

\* a cutoff that falls inside a bucket of an event of several rounds, with
\* a share that has to be rounded
C29_Witness ==
  /\ BeforeFirstRound
  /\ args.totalRounds >= 3
  /\ \E w \in DOMAIN ChanceMap :
       FracLt(FromInt(0), ChanceMap[w]) /\ FracLt(ChanceMap[w], FromInt(1))
  /\ ret # Frac(100 * args.targetRank, args.totalPlayers)


\* the lists that hold the groups of the call in another order
Reorderings ==
  {[i \in 1 .. Len(args.groups) |-> args.groups[p[i]]] :
     p \in Permutations(1 .. Len(args.groups))}

\* C30: the solver returns the same successful ways and the same
\* percentage for the groups of a call taken in any other order.
C30_GroupOrderIsIrrelevant ==
  HyperReturned =>
    \A groups \in Reorderings :
      LET c == calculateMultivariateHyper(EmptyMemo, args.deckSize,
                                          args.handSize, groups)
      IN c.successful = ret.successful /\ c.res = ret.res

\* three groups of different sizes and wishes, some hands good, some not
C30_Witness ==
  /\ HyperReturned
  /\ Len(args.groups) = 3
  /\ args.groups[1].countInDeck < args.groups[2].countInDeck
  /\ args.groups[3].countInDeck < args.groups[1].countInDeck
  /\ args.groups[1].minDesired # args.groups[2].minDesired
  /\ args.groups[2].maxDesired # args.groups[3].maxDesired
  /\ ret.successful > 0 /\ ret.successful < ret.total

====
